---- MODULE Spec2Model ----
(***************************************************************************)
(* Model of the continual-learning core of binarized-neural-networks:      *)
(*   - optimizer/metaplasticadam.py  (MetaplasticAdam)                     *)
(*   - dataloader/gpuLoading.py      (GPUTensorDataset, GPUDataLoader)     *)
(*   - trainer/gpuTrainer.py         (GPUTrainer.reset_optimizer)          *)
(* Tensors are finite sequences of fixed-point numbers (value * SCALE),    *)
(* extended with the IEEE non-finite values +inf, -inf and NaN.            *)
(***************************************************************************)
EXTENDS Integers, Sequences, FiniteSets, TLC

(***************************************************************************)
(* Fixed-point arithmetic with IEEE non-finite values                      *)
(***************************************************************************)
SCALE == 10 * 10
PINF == SCALE * SCALE * SCALE
NINF == 0 - PINF
NAN == PINF + 1

IsFinite(x) == x > NINF /\ x < PINF

AbsInt(x) == IF x < 0 THEN 0 - x ELSE x

\* integer division rounding toward zero
TDiv(a, b) ==
    IF (a >= 0) = (b > 0) THEN AbsInt(a) \div AbsInt(b)
    ELSE 0 - (AbsInt(a) \div AbsInt(b))

\* a finite result that leaves the finite range becomes an infinity
Clamp(x) == IF x >= PINF THEN PINF ELSE IF x <= NINF THEN NINF ELSE x

SgnInt(x) == IF x > 0 THEN 1 ELSE IF x < 0 THEN 0 - 1 ELSE 0

Add(a, b) ==
    IF a = NAN \/ b = NAN THEN NAN
    ELSE IF ~IsFinite(a) THEN (IF ~IsFinite(b) /\ a # b THEN NAN ELSE a)
    ELSE IF ~IsFinite(b) THEN b
    ELSE Clamp(a + b)

Neg(a) == IF a = NAN THEN NAN ELSE 0 - a

Sub(a, b) == Add(a, Neg(b))

Mul(a, b) ==
    IF a = NAN \/ b = NAN THEN NAN
    ELSE IF ~IsFinite(a) \/ ~IsFinite(b)
         THEN (IF a = 0 \/ b = 0 THEN NAN
               ELSE IF SgnInt(a) = SgnInt(b) THEN PINF ELSE NINF)
    ELSE Clamp(TDiv(a * b, SCALE))

\* the divisor zero is +0: denom is a square root plus eps
Div(a, b) ==
    IF a = NAN \/ b = NAN THEN NAN
    ELSE IF ~IsFinite(a)
         THEN (IF ~IsFinite(b) THEN NAN
               ELSE IF (a > 0) = (b >= 0) THEN PINF ELSE NINF)
    ELSE IF ~IsFinite(b) THEN 0
    ELSE IF b = 0
         THEN (IF a = 0 THEN NAN ELSE IF a > 0 THEN PINF ELSE NINF)
    ELSE Clamp(TDiv(a * SCALE, b))

RECURSIVE ISqrtBetween(_, _, _)
\* largest r in lo..hi with r*r <= x (bisection)
ISqrtBetween(x, lo, hi) ==
    IF lo >= hi THEN lo
    ELSE LET mid == (lo + hi + 1) \div 2
         IN  IF mid * mid <= x THEN ISqrtBetween(x, mid, hi)
             ELSE ISqrtBetween(x, lo, mid - 1)

Sqrt(a) ==
    IF a = NAN \/ a < 0 THEN NAN
    ELSE IF a = PINF THEN PINF
    ELSE ISqrtBetween(a * SCALE, 0, a + SCALE)

Abs(a) == IF a = NAN THEN NAN ELSE AbsInt(a)

\* torch.sign: -1, 0 or +1 (NaN for NaN)
Sign(a) == IF a = NAN THEN NAN ELSE SgnInt(a) * SCALE

\* a comparison with NaN is false
Gt0(a) == a # NAN /\ a > 0

\* torch.max propagates NaN
Max(a, b) == IF a = NAN \/ b = NAN THEN NAN ELSE IF a >= b THEN a ELSE b

\* tanh at the grid points 0, 1/4, 2/4, ... 13/4, rounded to 1/SCALE
TanhTable == <<0, 24, 46, 64, 76, 85, 91, 94, 96, 98, 99, 99, 100, 100>>
TanhStep == SCALE \div 4

\* tanh of a non-negative finite x: linear interpolation on the grid,
\* and exactly 1 from the point where the rounding saturates
TanhPos(x) ==
    LET i == x \div TanhStep
    IN  IF i + 2 > Len(TanhTable) THEN SCALE
        ELSE LET lo == TanhTable[i + 1]
                 hi == TanhTable[i + 2]
             IN  lo + ((hi - lo) * (x - i * TanhStep)) \div TanhStep

Tanh(x) ==
    IF x = NAN THEN NAN
    ELSE IF x = PINF THEN SCALE
    ELSE IF x = NINF THEN 0 - SCALE
    ELSE IF x >= 0 THEN TanhPos(x) ELSE 0 - TanhPos(0 - x)

RECURSIVE Pow(_, _)
\* beta ** t for a python float beta and an integer t >= 0
Pow(b, t) == IF t = 0 THEN SCALE ELSE Mul(b, Pow(b, t - 1))

\* torch.zeros_like: a tensor is the sequence of its elements
Zeros(n) == [i \in 1..n |-> 0]

(***************************************************************************)
(* State                                                                   *)
(***************************************************************************)
VARIABLES
    params,      \* model.parameters(): name -> tensor (p.data)
    optLive,     \* TRUE once a MetaplasticAdam object exists (trainer.optimizer)
    group,       \* optimizer.param_groups[0]: the hyperparameters
    state,       \* optimizer.state: name -> per-parameter state
    calls,       \* number of step() and reset_optimizer() calls made so far
    last,        \* record of the last optimizer operation (inputs, outcome)
    loader,      \* the GPUDataLoader and its GPUTensorDataset
    gens,        \* suspended generators of permute_dataset / class_incremental_dataset
    trav,        \* record of the traversals of the loader (batches returned)
    trainer,     \* the BayesTrainer: configuration, posterior state, history
    run,         \* the training script: position in its task loop, events
    built        \* what the loading facade returned to its caller

optVars == <<params, optLive, group, state, calls, last>>
loaderVars == <<loader, gens, trav>>
appVars == <<trainer, run, built>>
vars == <<params, optLive, group, state, calls, last, loader, gens, trav,
          trainer, run, built>>

\* a trainer that does not exist: stage tells how far its construction got
\* ("none": never tried), err how it failed, given what training_parameters
\* it was given; no optimizer (hasOptimizer), no accuracy history (hasHistory)
\* (out: the last call on the trainer, what it was given and returned;
\* hasScheduler: "scheduler" in dir(self); hasPermutations:
\* "test_permutations" in dir(self))
NoOut ==
    [op |-> "none", n_samples |-> 0, inputs |-> <<>>, drawn |-> <<>>,
     noise |-> <<>>, predictions |-> <<>>, input_size |-> 0]

NoTrainer ==
    [built |-> FALSE, stage |-> "none", err |-> "none", given |-> <<>>,
     hasSamples |-> FALSE, test_mcmc_samples |-> 0,
     hasOptimizer |-> FALSE, hasHistory |-> FALSE, testing_accuracy |-> <<>>,
     mu |-> <<>>, lambda |-> <<>>, parameters |-> <<>>,
     hasScheduler |-> FALSE, hasPermutations |-> FALSE,
     out |-> NoOut]

\* task_selection has not been called: no task, no error, no loaders, and
\* the caller has taken none of them
NoBuilt ==
    [task |-> "none", err |-> "none", batch_size |-> 0,
     train |-> <<>>, test |-> <<>>, taken |-> "none"]

\* no trainer has been built, no script runs, the facade was not called
AppAbsent ==
    /\ trainer = NoTrainer
    /\ run = [pc |-> "absent"]
    /\ built = NoBuilt

(***************************************************************************)
(* MetaplasticAdam                                                         *)
(***************************************************************************)
One == SCALE
Half == SCALE \div 2
Tenth == SCALE \div 10

\* group['params'] in iteration order: a weight matrix, then a bias vector
ParamNames == <<"w", "b">>
ParamDim == [n \in {"w", "b"} |-> IF n = "w" THEN 2 ELSE 1]
ParamNumel == [n \in {"w", "b"} |-> IF n = "w" THEN 2 ELSE 1]
ParamSet == {ParamNames[i] : i \in 1..Len(ParamNames)}

\* parameter values the model may hold when the trainer is built
InitParams ==
    { [n \in ParamSet |-> IF n = "w" THEN <<Half, 0 - Half>> ELSE <<Half>>],
      [n \in ParamSet |-> IF n = "w" THEN <<0, One + Half>> ELSE <<0 - One>>] }

BaseConfig ==
    [lr |-> Half, betas |-> <<Half, Half>>, eps |-> Tenth, weight_decay |-> 0,
     metaplasticity |-> One, metaIsDict |-> FALSE, amsgrad |-> FALSE]

\* keyword arguments that must make construction fail: the base
\* configuration with one argument out of range
InvalidConfigs ==
    {[BaseConfig EXCEPT !.lr = 0 - One],
     [BaseConfig EXCEPT !.eps = 0 - One],
     [BaseConfig EXCEPT !.betas = <<One, Half>>],
     [BaseConfig EXCEPT !.betas = <<Half, One>>],
     [BaseConfig EXCEPT !.betas = <<0 - Half, Half>>],
     [BaseConfig EXCEPT !.betas = <<Half, 0 - Half>>]}

\* keyword arguments in range: the base configuration; the AMS variant with
\* weight decay; a large metaplasticity; eps = 0; every boundary value at
\* once; and the default metaplasticity={} left in place
ValidConfigs ==
    {BaseConfig,
     [BaseConfig EXCEPT !.amsgrad = TRUE, !.weight_decay = Tenth],
     [BaseConfig EXCEPT !.metaplasticity = 4 * One],
     [BaseConfig EXCEPT !.eps = 0, !.betas = <<Half, 0>>],
     [BaseConfig EXCEPT !.lr = 0, !.eps = 0, !.betas = <<0, 0>>,
                        !.metaplasticity = 0],
     [BaseConfig EXCEPT !.metaIsDict = TRUE]}

Configs == InvalidConfigs \cup ValidConfigs

ValidHyperLoose(cfg) ==
    /\ 0 <= cfg.lr
    /\ 0 <= cfg.eps
    /\ 0 <= cfg.betas[1] /\ cfg.betas[1] <= One
    /\ 0 <= cfg.betas[2] /\ cfg.betas[2] < One

\* the four range checks of __init__: all must pass
ValidHyper(cfg) ==
    /\ 0 <= cfg.lr
    /\ 0 <= cfg.eps
    /\ 0 <= cfg.betas[1] /\ cfg.betas[1] < One
    /\ 0 <= cfg.betas[2] /\ cfg.betas[2] < One

\* self.state[p] of a parameter never seen with a gradient: an empty dict
EmptyState ==
    [n |-> 0, step |-> 0, exp_avg |-> <<>>, exp_avg_sq |-> <<>>,
     max_exp_avg_sq |-> <<>>]

NoState == [n \in ParamSet |-> EmptyState]

\* "State initialization": zero tensors shaped like the parameter
FreshState(numel, amsgrad) ==
    [n |-> IF amsgrad THEN 4 ELSE 3, step |-> 0, exp_avg |-> Zeros(numel),
     exp_avg_sq |-> Zeros(numel),
     max_exp_avg_sq |-> IF amsgrad THEN Zeros(numel) ELSE <<>>]

\* gradients a parameter may carry when step() runs
NoGrad == [kind |-> "none", val |-> <<>>]
\* a sparse gradient holds values too; step() never gets to read them
SparseGrad(numel) == [kind |-> "sparse", val |-> [i \in 1..numel |-> One]]
DenseGrads(numel) ==
    IF numel = 1
    THEN {[kind |-> "dense", val |-> <<One>>],
          [kind |-> "dense", val |-> <<0 - One>>],
          [kind |-> "dense", val |-> <<0>>]}
    ELSE {[kind |-> "dense", val |-> <<One, 0 - One>>],
          [kind |-> "dense", val |-> <<0 - One, One>>],
          [kind |-> "dense", val |-> <<0, 0>>]}
GradsOf(name) ==
    {NoGrad, SparseGrad(ParamNumel[name])} \cup DenseGrads(ParamNumel[name])

\* the tensor handed to addcdiv_ as numerator for a parameter of dimension 1
\* (lines 97-98): exp_avg itself
AppliedBias(exp_avg) == exp_avg

ConsolidationInverted(p, exp_avg) == ~Gt0(Mul(Sign(p), exp_avg))
\* condition_consolidation (lines 90-93): sign(p) * exp_avg > 0
Consolidation(p, exp_avg) == Gt0(Mul(Sign(p), exp_avg))

\* 1 - tanh(metaplasticity * |p|) ** 2 (lines 100-101)
DecayFactor(meta, p) ==
    LET t == Tanh(Mul(meta, Abs(p)))
    IN  Sub(One, Mul(t, t))

\* the numerator for a parameter of any other dimension (lines 100-104):
\* where(condition_consolidation, decayed_exp_avg, exp_avg), element-wise
AppliedWeight(meta, p, exp_avg) ==
    [i \in 1..Len(p) |->
        IF Consolidation(p[i], exp_avg[i])
        THEN Mul(DecayFactor(meta, p[i]), exp_avg[i])
        ELSE exp_avg[i]]

AppliedAlwaysWeight(meta, dim, p, exp_avg) == AppliedWeight(meta, p, exp_avg)
\* if p.dim() == 1 ... else ... (lines 97-104)
Applied(meta, dim, p, exp_avg) ==
    IF dim = 1 THEN AppliedBias(exp_avg)
    ELSE AppliedWeight(meta, p, exp_avg)

\* step_size (lines 85-88)
StepSize(cfg, t) ==
    LET bias_correction1 == Sub(One, Pow(cfg.betas[1], t))
        bias_correction2 == Sub(One, Pow(cfg.betas[2], t))
    IN  Div(Mul(cfg.lr, Sqrt(bias_correction2)), bias_correction1)

RunningMaxLatest(max_exp_avg_sq, exp_avg_sq) == exp_avg_sq
\* torch.max(max_exp_avg_sq, exp_avg_sq, out=max_exp_avg_sq) (line 79), for
\* one element
RunningMax(max_exp_avg_sq, exp_avg_sq) == Max(max_exp_avg_sq, exp_avg_sq)

StepCountRestart(t) == 1
\* state['step'] += 1 (line 69)
StepCount(t) == t + 1

\* The body of the loop over group['params'] for one parameter that carries
\* a dense gradient (lines 47-104).  The result is the parameter, its state
\* and the numerator given to addcdiv_; err is "TypeError" when
\* metaplasticity is the default {} and the parameter is not 1-dimensional:
\* the state has then been updated in place and the parameter has not.
StepParam(cfg, dim, p, st, grad0) ==
    LET s0 == IF st.n = 0 THEN FreshState(Len(p), cfg.amsgrad) ELSE st
        t == StepCount(s0.step)
        grad == IF cfg.weight_decay # 0
                THEN [i \in 1..Len(p) |-> Add(grad0[i], Mul(cfg.weight_decay, p[i]))]
                ELSE grad0
        exp_avg == [i \in 1..Len(p) |->
                      Add(Mul(s0.exp_avg[i], cfg.betas[1]),
                          Mul(Sub(One, cfg.betas[1]), grad[i]))]
        exp_avg_sq == [i \in 1..Len(p) |->
                         Add(Mul(s0.exp_avg_sq[i], cfg.betas[2]),
                             Mul(Mul(Sub(One, cfg.betas[2]), grad[i]), grad[i]))]
        max_exp_avg_sq == IF cfg.amsgrad
                          THEN [i \in 1..Len(p) |->
                                  RunningMax(s0.max_exp_avg_sq[i],
                                             exp_avg_sq[i])]
                          ELSE s0.max_exp_avg_sq
        denom == [i \in 1..Len(p) |->
                    Add(Sqrt(IF cfg.amsgrad THEN max_exp_avg_sq[i]
                             ELSE exp_avg_sq[i]), cfg.eps)]
        s1 == [n |-> s0.n, step |-> t, exp_avg |-> exp_avg,
               exp_avg_sq |-> exp_avg_sq, max_exp_avg_sq |-> max_exp_avg_sq]
        step_size == StepSize(cfg, t)
    IN  IF dim # 1 /\ cfg.metaIsDict
        THEN [p |-> p, st |-> s1, applied |-> <<>>, err |-> "TypeError"]
        ELSE LET num == Applied(cfg.metaplasticity, dim, p, exp_avg)
             IN  [p |-> [i \in 1..Len(p) |->
                           Add(p[i], Div(Mul(Neg(step_size), num[i]), denom[i]))],
                  st |-> s1, applied |-> num, err |-> "none"]

SparseAccepted(g) == FALSE
\* grad.is_sparse (line 44)
IsSparse(g) == g.kind = "sparse"

RECURSIVE StepFromChecked(_, _, _, _)
StepFromChecked(i, acc, cfg, grads) ==
    IF i > Len(ParamNames) THEN acc
    ELSE LET name == ParamNames[i]
             g == grads[name]
             sparse == {j \in i..Len(ParamNames) :
                           grads[ParamNames[j]].kind = "sparse"}
         IN  IF sparse # {}
             THEN [acc EXCEPT !.err = "RuntimeError",
                              !.at = CHOOSE j \in sparse :
                                        \A k \in sparse : j <= k]
             ELSE IF g.kind = "none"
                  THEN StepFromChecked(i + 1, acc, cfg, grads)
             ELSE LET r == StepParam(cfg, ParamDim[name], acc.p[name],
                                     acc.st[name], g.val)
                      acc1 == [acc EXCEPT !.p[name] = r.p, !.st[name] = r.st,
                                          !.applied[name] = r.applied]
                  IN  IF r.err # "none"
                      THEN [acc1 EXCEPT !.err = r.err, !.at = i]
                      ELSE StepFromChecked(i + 1, acc1, cfg, grads)

RECURSIVE StepFrom(_, _, _, _)
\* the loop over group['params'] from position i on (lines 40-104); acc
\* holds the parameters, states and numerators so far.  A parameter without
\* a gradient is skipped; a sparse gradient raises before anything of that
\* parameter is touched; an error ends the loop.
StepFrom(i, acc, cfg, grads) ==
    IF i > Len(ParamNames) THEN acc
    ELSE LET name == ParamNames[i]
             g == grads[name]
         IN  IF g.kind = "none" THEN StepFrom(i + 1, acc, cfg, grads)
             ELSE IF IsSparse(g)
                  THEN [acc EXCEPT !.err = "RuntimeError", !.at = i]
             ELSE LET r == StepParam(cfg, ParamDim[name], acc.p[name],
                                     acc.st[name], g.val)
                      acc1 == [acc EXCEPT !.p[name] = r.p, !.st[name] = r.st,
                                          !.applied[name] = r.applied]
                  IN  IF r.err # "none"
                      THEN [acc1 EXCEPT !.err = r.err, !.at = i]
                      ELSE StepFrom(i + 1, acc1, cfg, grads)

\* optimizer operations (step, reset_optimizer) explored after construction
MaxCalls == 2

\* one gradient (or none) for every parameter
AllGrads ==
    {g \in [ParamSet -> UNION {GradsOf(n) : n \in ParamSet}] :
        \A n \in ParamSet : g[n] \in GradsOf(n)}

NoGrads == [n \in ParamSet |-> NoGrad]
NoApplied == [n \in ParamSet |-> <<>>]

\* what the last optimizer operation was given and what it did: op, the
\* error it raised, the configuration or gradients it was given, the
\* parameters and states before it, the numerators it used, and the
\* position in ParamNames at which it failed (0: nowhere)
LastOf(op, err, cfg, grads, p0, st0, applied, at) ==
    [op |-> op, err |-> err, cfg |-> cfg, grads |-> grads, p0 |-> p0,
     st0 |-> st0, applied |-> applied, at |-> at]

InitOptimizer ==
    /\ params \in InitParams
    /\ optLive = FALSE
    /\ group = BaseConfig      \* not read while optLive is FALSE
    /\ state = NoState
    /\ calls = 0
    /\ last = LastOf("none", "none", BaseConfig, NoGrads, params, NoState,
                     NoApplied, 0)

\* GPUTrainer.__init__ builds the optimizer: MetaplasticAdam(params, **cfg).
\* A ValueError leaves no optimizer behind.
Construct(cfg) ==
    /\ ~optLive
    /\ IF ValidHyper(cfg)
       THEN /\ optLive' = TRUE
            /\ group' = cfg
            /\ state' = NoState
            /\ last' = LastOf("construct", "none", cfg, NoGrads, params,
                              state, NoApplied, 0)
       ELSE /\ UNCHANGED <<optLive, group, state>>
            /\ last' = LastOf("construct", "ValueError", cfg, NoGrads, params,
                              state, NoApplied, 0)
    /\ UNCHANGED <<params, calls>>

\* GPUTrainer.reset_optimizer: a new optimizer object replaces the old one;
\* when its construction raises, the assignment does not happen.
ResetOptimizer(cfg) ==
    /\ optLive
    /\ calls < MaxCalls
    /\ IF ValidHyper(cfg)
       THEN /\ group' = cfg
            /\ state' = NoState
            /\ last' = LastOf("reset", "none", cfg, NoGrads, params, state,
                              NoApplied, 0)
       ELSE /\ UNCHANGED <<group, state>>
            /\ last' = LastOf("reset", "ValueError", cfg, NoGrads, params,
                              state, NoApplied, 0)
    /\ calls' = calls + 1
    /\ UNCHANGED <<optLive, params>>

\* MetaplasticAdam.step() with the gradients the backward pass left
Step(grads) ==
    /\ optLive
    /\ calls < MaxCalls
    /\ \E r \in {StepFrom(1, [p |-> params, st |-> state, applied |-> NoApplied,
                             err |-> "none", at |-> 0], group, grads)} :
           /\ params' = r.p
           /\ state' = r.st
           /\ last' = LastOf("step", r.err, group, grads, params, state,
                             r.applied, r.at)
    /\ calls' = calls + 1
    /\ UNCHANGED <<optLive, group>>

\* the calls on a model and its optimizer alone
NextOptimizer ==
    \/ \E cfg \in Configs : Construct(cfg) /\ UNCHANGED <<loaderVars, appVars>>
    \/ \E cfg \in Configs : ResetOptimizer(cfg) /\ UNCHANGED <<loaderVars, appVars>>
    \/ \E grads \in AllGrads : Step(grads) /\ UNCHANGED <<loaderVars, appVars>>

\* no loader has been built
LoaderAbsent ==
    /\ loader = [built |-> FALSE]
    /\ gens = <<>>
    /\ trav = <<>>

InitOptimizerOnly == InitOptimizer /\ LoaderAbsent /\ AppAbsent

SpecOptimizer == InitOptimizerOnly /\ [][NextOptimizer]_vars

(***************************************************************************)
(* Claims about MetaplasticAdam (checked under SpecOptimizer)              *)
(***************************************************************************)
ParamIndex(n) == CHOOSE i \in 1..Len(ParamNames) : ParamNames[i] = n

\* the last step() call ends at parameter m: its gradient is sparse, or it
\* is a weight tensor and metaplasticity is not a number
AbortsAt(m) ==
    \/ last.grads[m].kind = "sparse"
    \/ /\ last.grads[m].kind = "dense"
       /\ ParamDim[m] # 1
       /\ last.cfg.metaIsDict

\* the loop of the last step() call got to parameter n
Visited(n) ==
    \A m \in ParamSet : ParamIndex(m) < ParamIndex(n) => ~AbortsAt(m)

\* ... and n carried a dense gradient, so its state was advanced
Reached(n) == Visited(n) /\ last.grads[n].kind = "dense"

\* ... and its update was applied
Updated(n) == Reached(n) /\ ~AbortsAt(n)

\* C1: in step(), for every element of a parameter with more than one
\* dimension (finite parameter value): when sign(param before the update) *
\* exp_avg > 0 the momentum applied is exp_avg scaled by a factor in [0, 1],
\* so its magnitude is at most that of exp_avg; otherwise (sign(param) *
\* exp_avg <= 0, param = 0 included) the momentum applied is exp_avg itself.
C1_AsymmetricMomentum ==
    last.op = "step" =>
        \A n \in ParamSet : (ParamDim[n] # 1 /\ Updated(n)) =>
            \A i \in 1..Len(params[n]) :
                LET p0 == last.p0[n][i]
                    ea == state[n].exp_avg[i]
                    a == last.applied[n][i]
                IN  IsFinite(p0) =>
                        IF SgnInt(p0) * ea > 0
                        THEN /\ \E f \in 0..One : a = Mul(f, ea)
                             /\ AbsInt(a) <= AbsInt(ea)
                        ELSE a = ea

\* a step in which one element of w was consolidating and got a strictly
\* smaller momentum, and another was not and had a non-zero momentum
C1_Witness ==
    /\ last.op = "step"
    /\ Updated("w")
    /\ \E i, j \in 1..Len(params["w"]) :
          /\ SgnInt(last.p0["w"][i]) * state["w"].exp_avg[i] > 0
          /\ AbsInt(last.applied["w"][i]) < AbsInt(state["w"].exp_avg[i])
          /\ SgnInt(last.p0["w"][j]) * state["w"].exp_avg[j] <= 0
          /\ state["w"].exp_avg[j] # 0
          /\ last.applied["w"][j] = state["w"].exp_avg[j]

\* the denominator of the update, from the state the step left (lines 77-83)
DenomOf(n, i) ==
    Add(Sqrt(IF last.cfg.amsgrad THEN state[n].max_exp_avg_sq[i]
             ELSE state[n].exp_avg_sq[i]), last.cfg.eps)

\* C2: in step(), a parameter with exactly one dimension is updated by
\* param <- param - step_size * exp_avg / denom: the numerator is exp_avg
\* itself, never the decayed one, whatever the signs and the metaplasticity.
C2_BiasPlainUpdate ==
    last.op = "step" =>
        \A n \in ParamSet : (ParamDim[n] = 1 /\ Reached(n)) =>
            /\ last.applied[n] = state[n].exp_avg
            /\ \A i \in 1..Len(params[n]) :
                  params[n][i] =
                      Add(last.p0[n][i],
                          Div(Mul(Neg(StepSize(last.cfg, state[n].step)),
                                  state[n].exp_avg[i]),
                              DenomOf(n, i)))

\* a step that updated the bias while its momentum agreed with its sign and
\* the decay factor would have shrunk it
C2_Witness ==
    /\ last.op = "step"
    /\ Reached("b")
    /\ ~last.cfg.metaIsDict
    /\ SgnInt(last.p0["b"][1]) * state["b"].exp_avg[1] > 0
    /\ Mul(DecayFactor(last.cfg.metaplasticity, last.p0["b"][1]),
           state["b"].exp_avg[1]) # state["b"].exp_avg[1]
    /\ params["b"] # last.p0["b"]

\* C3 as stated: every step() call increases the step count of every
\* parameter by exactly 1.
C3_EveryCallCountsEveryParameter ==
    last.op = "step" =>
        \A n \in ParamSet : state[n].step = last.st0[n].step + 1

\* C3, amended: a step() call increases by exactly 1 the step count of each
\* parameter it reaches with a dense gradient and leaves every other count
\* as it was; a count is set back to nothing only by the construction of a
\* new optimizer, and a construction that fails changes no count.
C3_StepCount ==
    /\ last.op = "step" =>
          \A n \in ParamSet :
              state[n].step =
                  last.st0[n].step + (IF Reached(n) THEN 1 ELSE 0)
    /\ (last.op \in {"construct", "reset"} /\ last.err = "none") =>
          state = NoState
    /\ (last.op \in {"construct", "reset"} /\ last.err # "none") =>
          state = last.st0

\* the second step of one optimizer: w counted twice, b (no gradient in the
\* second call) still counted once
C3_Witness ==
    /\ last.op = "step"
    /\ last.err = "none"
    /\ state["w"].step = 2
    /\ last.grads["b"].kind = "none"
    /\ state["b"].step = 1

\* C4: construction fails at once, leaving no optimizer and no state,
\* exactly when lr < 0 or eps < 0 or beta1 or beta2 is outside [0, 1); so
\* it fails for lr = -1, eps = -1, betas = (1.0, 0.5), betas = (0.5, 1.0)
\* and succeeds for lr = 0, eps = 0, beta1 = 0, beta2 = 0.
C4_ConstructionValidation ==
    last.op \in {"construct", "reset"} =>
        LET c == last.cfg
            bad == \/ c.lr < 0
                   \/ c.eps < 0
                   \/ c.betas[1] < 0 \/ c.betas[1] >= One
                   \/ c.betas[2] < 0 \/ c.betas[2] >= One
        IN  /\ (last.err = "ValueError") = bad
            /\ last.err \in {"ValueError", "none"}
            /\ (bad /\ last.op = "construct") => (~optLive /\ state = NoState)
            /\ (bad /\ last.op = "reset") => (optLive /\ state = last.st0)
            /\ ~bad => (optLive /\ group = c /\ state = NoState)
            /\ (c.lr = 0 - One \/ c.eps = 0 - One \/ c.betas = <<One, Half>>
                \/ c.betas = <<Half, One>>) => last.err = "ValueError"
            /\ (c.lr >= 0 /\ c.eps >= 0 /\ c.betas[1] \in {0, Half}
                /\ c.betas[2] \in {0, Half}) => last.err = "none"

\* the first construction refused for beta1 = 1.0
C4_Witness ==
    /\ last.op = "construct"
    /\ last.err = "ValueError"
    /\ last.cfg.betas = <<One, Half>>
    /\ ~optLive

\* C5: a sparse gradient on a parameter that step() visits makes step()
\* fail, whatever amsgrad, weight_decay and metaplasticity are, and that
\* parameter and its state are left as they were.
C5_SparseRejected ==
    last.op = "step" =>
        \A n \in ParamSet : (Visited(n) /\ last.grads[n].kind = "sparse") =>
            /\ last.err = "RuntimeError"
            /\ params[n] = last.p0[n]
            /\ state[n] = last.st0[n]

\* a failed step of the AMS variant with weight decay: w was updated, then
\* the sparse gradient of b was met
C5_Witness ==
    /\ last.op = "step"
    /\ last.err = "RuntimeError"
    /\ last.cfg.amsgrad
    /\ last.cfg.weight_decay # 0
    /\ last.grads["w"].kind = "dense"
    /\ last.grads["b"].kind = "sparse"
    /\ params["w"] # last.p0["w"]

(***************************************************************************)
(* GPUTensorDataset and GPUDataLoader                                      *)
(***************************************************************************)
\* largest dataset of the traversal runs, and largest batch size
MaxN == 7
MaxBatch == 3
\* traversals begun per run
MaxTraversals == 3
\* largest dataset for which every outcome of torch.randperm is explored
FullShuffle == 3
\* largest dataset of the transform runs, longest list of permutations and
\* largest number of tasks handed to the generators
MaxRows == 2
MaxPerms == 2
MaxTasks == 2

\* shape of one sample: H x W pixels
ImageShape == <<1, 3>>
NPix == ImageShape[1] * ImageShape[2]
NClasses == 1 + 1

\* the permutations of 1..n, as sequences
Perms(n) == {f \in [1..n -> 1..n] : \A i, j \in 1..n : f[i] = f[j] => i = j}
Identity(n) == [i \in 1..n |-> i]
Rotation(n, r) == [i \in 1..n |-> ((i - 1 + r) % n) + 1]
Reversal(n) == [i \in 1..n |-> n + 1 - i]
\* outcomes of torch.randperm(n) that are explored: every permutation of a
\* small dataset; the rotations and the reversal of a larger one
RandPerms(n) ==
    IF n <= FullShuffle THEN Perms(n)
    ELSE {Rotation(n, r) : r \in 0..(n - 1)} \cup {Reversal(n)}
\* pixel permutations handed to permute_dataset: the identity, a rotation
\* and the reversal of the flattened pixels
PixelPerms == {Identity(NPix), Rotation(NPix, 1), Reversal(NPix)}

\* the decoded arrays: sample i holds NPix distinct pixel values, flattened
\* row-major, and a label
OrigData(n) == [i \in 1..n |-> [j \in 1..NPix |-> 10 * i + j]]
OrigTargets(n) == [i \in 1..n |-> (i - 1) % NClasses]

\* GPUDataLoader(GPUTensorDataset(data, targets), batch_size, shuffle,
\* drop_last): index and perm exist from the first __iter__ on (started),
\* reference from the first generator step on (hasRef)
NewLoader(n, batch_size, shuffle, drop_last) ==
    [built |-> TRUE, data |-> OrigData(n), targets |-> OrigTargets(n),
     shape |-> ImageShape, batch_size |-> batch_size, shuffle |-> shuffle,
     drop_last |-> drop_last, started |-> FALSE, index |-> 0, perm |-> <<>>,
     hasRef |-> FALSE, reference |-> <<>>]

\* GPUTensorDataset.__len__
DatasetLen(ld) == Len(ld.data)

\* GPUDataLoader.__len__: len(self.dataset) // self.batch_size
LoaderLen(ld) == DatasetLen(ld) \div ld.batch_size

\* no generator exists and no transform step has run
\* (pg: the permute_dataset generator and the permutations it has left; cg:
\* the class_incremental_dataset generator and its loop counter; live: the
\* kind and permutation of the last transform step, and the permutation of
\* the step before it)
NoGens ==
    [pg |-> [active |-> FALSE, rest |-> <<>>],
     cg |-> [active |-> FALSE, i |-> 0, n |-> 0],
     live |-> [kind |-> "none", perm |-> <<>>, prev |-> <<>>]]

\* the traversals so far: how many were begun, the outcome of the last
\* loader call, the index lists of the batches of the current traversal,
\* whether it has signalled its end, the batch size the loader was built
\* with, the sizes of the batches of the first traversal once it has ended,
\* the last batch the current traversal returned, and what len(loader) was
\* when the current traversal began
NoTraversal(batch_size) ==
    [n |-> 0, out |-> "none", yielded |-> <<>>, done |-> FALSE,
     B |-> batch_size, hasFirst |-> FALSE, first |-> <<>>,
     batch |-> [data |-> <<>>, targets |-> <<>>], len |-> 0]

InitLoader(sizes, maxb, shuffles, drops) ==
    /\ \E n \in sizes, b \in 1..maxb, sh \in shuffles, dl \in drops :
          /\ loader = NewLoader(n, b, sh, dl)
          /\ trav = NoTraversal(b)
    /\ gens = NoGens

\* GPUDataLoader.__iter__: cursor to 0, a fresh permutation of the indices
\* (torch.randperm: any of them) or the identity
Iter ==
    /\ trav.n < MaxTraversals
    /\ \E p \in (IF loader.shuffle THEN RandPerms(DatasetLen(loader))
                 ELSE {Identity(DatasetLen(loader))}) :
          loader' = [loader EXCEPT !.started = TRUE, !.index = 0, !.perm = p]
    /\ trav' = [trav EXCEPT !.n = trav.n + 1, !.out = "iter",
                            !.yielded = <<>>, !.done = FALSE,
                            !.batch = [data |-> <<>>, targets |-> <<>>],
                            !.len = LoaderLen(loader)]
    /\ UNCHANGED gens

\* batch sizes of a list of batches
Sizes(batches) == [k \in 1..Len(batches) |-> Len(batches[k])]

\* self.perm[self.index:self.index+self.batch_size]: positions index+1 ..
\* index+batch_size of the permutation (1-based), cut at its end
Slice(perm, index, batch_size) ==
    LET hi == IF index + batch_size > Len(perm) THEN Len(perm)
              ELSE index + batch_size
    IN  [k \in 1..(hi - index) |-> perm[index + k]]

GetItemMisaligned(ld, idx) ==
    [data |-> [k \in 1..Len(idx) |-> ld.data[idx[k]]],
     targets |-> [k \in 1..Len(idx) |-> ld.targets[k]]]
\* GPUTensorDataset.__getitem__ with an index tensor
GetItem(ld, idx) ==
    [data |-> [k \in 1..Len(idx) |-> ld.data[idx[k]]],
     targets |-> [k \in 1..Len(idx) |-> ld.targets[idx[k]]]]

ShrunkSizeNever(ld) == ld.batch_size
\* lines 48-49: the batch size of the batch about to be built; without
\* drop_last a batch that would pass the end is cut to what remains, and
\* the cut size is stored in self.batch_size
ShrunkSize(ld) ==
    IF ld.index + ld.batch_size > DatasetLen(ld) /\ ~ld.drop_last
    THEN DatasetLen(ld) - ld.index
    ELSE ld.batch_size

DropLastIgnored(ld) == ld.index >= DatasetLen(ld)
\* lines 44-47: the two tests that raise StopIteration
Exhausted(ld) ==
    \/ ld.index >= DatasetLen(ld)
    \/ ld.index + ld.batch_size > DatasetLen(ld) /\ ld.drop_last

\* GPUDataLoader.__next__ after an __iter__
NextBatch ==
    /\ loader.started
    /\ IF Exhausted(loader)
       THEN /\ trav' = [trav EXCEPT
                          !.out = "stop", !.done = TRUE,
                          !.hasFirst = trav.hasFirst \/ trav.n = 1,
                          !.first = IF ~trav.hasFirst /\ trav.n = 1
                                    THEN Sizes(trav.yielded) ELSE trav.first]
            /\ UNCHANGED loader
       ELSE LET bs == ShrunkSize(loader)
                idx == Slice(loader.perm, loader.index, bs)
            IN  /\ loader' = [loader EXCEPT !.batch_size = bs,
                                            !.index = loader.index + bs]
                /\ trav' = [trav EXCEPT !.out = "batch",
                                        !.yielded = Append(trav.yielded, idx),
                                        !.batch = GetItem(loader, idx)]
    /\ UNCHANGED gens

\* GPUDataLoader.__next__ before any __iter__: self.index does not exist
NextBeforeIter ==
    /\ ~loader.started
    /\ trav' = [trav EXCEPT !.out = "AttributeError"]
    /\ UNCHANGED <<loader, gens>>

\* the calls on a loader alone
NextIterator ==
    \/ Iter /\ UNCHANGED <<optVars, appVars>>
    \/ NextBatch /\ UNCHANGED <<optVars, appVars>>
    \/ NextBeforeIter /\ UNCHANGED <<optVars, appVars>>

\* no optimizer has been built
OptimizerAbsent ==
    /\ params = [n \in ParamSet |-> <<>>]
    /\ optLive = FALSE
    /\ group = BaseConfig
    /\ state = NoState
    /\ calls = 0
    /\ last = LastOf("none", "none", BaseConfig, NoGrads, params, NoState,
                     NoApplied, 0)

\* a loader that is only traversed
InitIterator ==
    /\ InitLoader(0..MaxN, MaxBatch, BOOLEAN, BOOLEAN)
    /\ OptimizerAbsent /\ AppAbsent

SpecIterator == InitIterator /\ [][NextIterator]_vars

(***************************************************************************)
(* permute_dataset and class_incremental_dataset                           *)
(***************************************************************************)
\* the lists of permutations handed to permute_dataset
PermLists == UNION {[1..k -> PixelPerms] : k \in 0..MaxPerms}

\* data.view(N, -1)[:, perm].view(reference.shape): column j of the result
\* is column perm[j] of the flattened data (line 72-73)
PermuteRows(data, perm) ==
    [i \in 1..Len(data) |-> [j \in 1..Len(perm) |-> data[i][perm[j]]]]

RestoreSkipped(ld) == ld
\* if "reference" in self.__dict__: self.dataset.data = self.reference
Restore(ld) == IF ld.hasRef THEN [ld EXCEPT !.data = ld.reference] ELSE ld

\* self.reference = self.dataset.data
SaveReference(ld) == [ld EXCEPT !.hasRef = TRUE, !.reference = ld.data]

ApplyPerm(ld, perm) == [ld EXCEPT !.data = PermuteRows(ld.data, perm)]

PermuteStepSaveFirst(ld, perm) == ApplyPerm(Restore(SaveReference(ld)), perm)
\* one round of the loop of permute_dataset, up to its yield (lines 68-74)
PermuteStep(ld, perm) == ApplyPerm(SaveReference(Restore(ld)), perm)

\* one round of the loop of class_incremental_dataset, up to its yield
\* (lines 81-88): nothing follows the restore and the save
ClassStep(ld) == SaveReference(Restore(ld))

\* loader.permute_dataset(perms): a generator object; no code runs yet
PermuteDataset(perms) ==
    /\ gens' = [gens EXCEPT !.pg = [active |-> TRUE, rest |-> perms]]
    /\ UNCHANGED <<loader, trav>>

\* next() on the permute_dataset generator
PermuteNext ==
    /\ gens.pg.active
    /\ IF gens.pg.rest = <<>>
       THEN /\ gens' = [gens EXCEPT !.pg = [active |-> FALSE, rest |-> <<>>]]
            /\ UNCHANGED loader
       ELSE /\ loader' = PermuteStep(loader, Head(gens.pg.rest))
            /\ gens' = [gens EXCEPT
                          !.pg.rest = Tail(gens.pg.rest),
                          !.live = [kind |-> "perm",
                                    perm |-> Head(gens.pg.rest),
                                    prev |-> gens.live.perm]]
    /\ UNCHANGED trav

\* loader.class_incremental_dataset(n_tasks): a generator object
ClassIncrementalDataset(n_tasks) ==
    /\ gens' = [gens EXCEPT !.cg = [active |-> TRUE, i |-> 0, n |-> n_tasks]]
    /\ UNCHANGED <<loader, trav>>

\* next() on the class_incremental_dataset generator
ClassIncrementalNext ==
    /\ gens.cg.active
    /\ IF gens.cg.i >= gens.cg.n
       THEN /\ gens' = [gens EXCEPT !.cg = [active |-> FALSE, i |-> 0, n |-> 0]]
            /\ UNCHANGED loader
       ELSE /\ loader' = ClassStep(loader)
            /\ gens' = [gens EXCEPT
                          !.cg.i = gens.cg.i + 1,
                          !.live = [kind |-> "class", perm |-> <<>>,
                                    prev |-> gens.live.perm]]
    /\ UNCHANGED trav

NextTransforms ==
    \/ \E perms \in PermLists : PermuteDataset(perms) /\ UNCHANGED <<optVars, appVars>>
    \/ PermuteNext /\ UNCHANGED <<optVars, appVars>>
    \/ \E n_tasks \in 0..MaxTasks :
           ClassIncrementalDataset(n_tasks) /\ UNCHANGED <<optVars, appVars>>
    \/ ClassIncrementalNext /\ UNCHANGED <<optVars, appVars>>

\* a loader whose dataset is transformed for a sequence of tasks (the dataset
\* is not empty: view(0, -1) of an empty tensor raises)
InitTransforms ==
    /\ InitLoader(1..MaxRows, 1, {FALSE}, {TRUE})
    /\ OptimizerAbsent /\ AppAbsent

SpecTransforms == InitTransforms /\ [][NextTransforms]_vars

(***************************************************************************)
(* Properties of a traversal                                               *)
(***************************************************************************)
\* the indices of the batches of the current traversal, in order
RECURSIVE Flatten(_)
Flatten(batches) ==
    IF batches = <<>> THEN <<>>
    ELSE Head(batches) \o Flatten(Tail(batches))

Distinct(s) == \A i, j \in 1..Len(s) : i # j => s[i] # s[j]

\* C6: with drop_last=True a traversal of N samples with batch size B only
\* returns batches of exactly B pairwise distinct samples, at most
\* floor(N/B) of them, and has returned exactly floor(N/B) of them when it
\* signals its end; the remainder is never returned as a short batch.
C6_DropLastTraversal ==
    loader.drop_last /\ loader.started =>
        /\ loader.batch_size = trav.B
        /\ \A k \in 1..Len(trav.yielded) : Len(trav.yielded[k]) = trav.B
        /\ Distinct(Flatten(trav.yielded))
        /\ \A i \in 1..Len(Flatten(trav.yielded)) :
               Flatten(trav.yielded)[i] \in 1..DatasetLen(loader)
        /\ Len(trav.yielded) <= DatasetLen(loader) \div trav.B
        /\ trav.out = "batch" => Len(trav.batch.data) = trav.B
        /\ trav.done =>
               /\ trav.out = "stop"
               /\ Len(trav.yielded) = DatasetLen(loader) \div trav.B
               /\ Len(Flatten(trav.yielded))
                      = (DatasetLen(loader) \div trav.B) * trav.B

\* a shuffled traversal of 7 samples by 3 has ended after 2 batches
C6_Witness ==
    /\ loader.drop_last /\ loader.shuffle /\ trav.done
    /\ DatasetLen(loader) = 7 /\ trav.B = 3
    /\ Len(trav.yielded) = 2
    /\ loader.perm # Identity(7)

\* the batch sizes of a traversal of n samples that returns the full
\* batches of size b and then the remainder
FullThenRemainder(n, b) ==
    [k \in 1..((n \div b) + 1) |-> IF k <= n \div b THEN b ELSE n % b]

\* C7: with drop_last=False and N not a multiple of the batch size B the
\* loader was built with, a traversal that has signalled its end returned
\* floor(N/B) full batches, then one batch of N mod B samples, and every one
\* of the N samples exactly once.
C7_RemainderBatch ==
    ~loader.drop_last /\ trav.done /\ DatasetLen(loader) % trav.B # 0 =>
        /\ Sizes(trav.yielded) = FullThenRemainder(DatasetLen(loader), trav.B)
        /\ Distinct(Flatten(trav.yielded))
        /\ Len(Flatten(trav.yielded)) = DatasetLen(loader)

\* C8: a traversal begins with the cursor at 0 and a permutation of all the
\* indices (the identity without shuffling), and once it has signalled its
\* end, it has returned batches of the same sizes as the first traversal of
\* the loader did.
C8_Restartable ==
    /\ loader.started /\ trav.yielded = <<>> /\ ~trav.done =>
           /\ loader.index = 0
           /\ loader.perm \in Perms(DatasetLen(loader))
           /\ ~loader.shuffle => loader.perm = Identity(DatasetLen(loader))
    /\ trav.done /\ trav.hasFirst => Sizes(trav.yielded) = trav.first

(***************************************************************************)
(* Properties of the dataset transforms                                    *)
(***************************************************************************)
\* C9: after a step of permute_dataset the features are the permutation of
\* that step applied to the original features, whatever the steps before
\* it; after a step with the identity they are the original features.
C9_NoCompounding ==
    gens.live.kind = "perm" =>
        /\ loader.data
               = PermuteRows(OrigData(DatasetLen(loader)), gens.live.perm)
        /\ gens.live.perm = Identity(NPix) =>
               loader.data = OrigData(DatasetLen(loader))

\* an identity step right after a step with another permutation
C9_Witness ==
    /\ gens.live.kind = "perm"
    /\ gens.live.perm = Identity(NPix)
    /\ gens.live.prev = Reversal(NPix)
    /\ DatasetLen(loader) = MaxRows
    /\ loader.data = OrigData(MaxRows)

\* C10: whatever steps of permute_dataset and class_incremental_dataset
\* generators have run, in whatever order, the saved reference is the
\* original features and the live features are the original features with at
\* most the one transform of the last step applied.
C10_OneLiveTransform ==
    /\ loader.hasRef => loader.reference = OrigData(DatasetLen(loader))
    /\ gens.live.kind = "none" =>
           ~loader.hasRef /\ loader.data = OrigData(DatasetLen(loader))
    /\ gens.live.kind = "class" =>
           loader.hasRef /\ loader.data = OrigData(DatasetLen(loader))
    /\ gens.live.kind = "perm" =>
           /\ loader.hasRef
           /\ loader.data
                  = PermuteRows(OrigData(DatasetLen(loader)), gens.live.perm)

\* a step of a class-incremental sequence right after a permutation step of
\* a sequence that was left midway
C10_Witness ==
    /\ gens.live.kind = "class"
    /\ gens.live.prev = Rotation(NPix, 1)
    /\ gens.pg.active /\ gens.pg.rest # <<>>
    /\ DatasetLen(loader) = MaxRows
    /\ loader.reference = OrigData(MaxRows)
    /\ loader.data = OrigData(MaxRows)

(***************************************************************************)
(* A loader that is transformed and traversed                              *)
(***************************************************************************)
\* permute_dataset with no permutation or with one
ShortPermLists == {<<>>} \cup {<<p>> : p \in PixelPerms}

\* the dataset is traversed once, at any point among the transform steps
NextDataset ==
    \/ trav.n = 0 /\ Iter /\ UNCHANGED <<optVars, appVars>>
    \/ NextBatch /\ UNCHANGED <<optVars, appVars>>
    \/ NextBeforeIter /\ UNCHANGED <<optVars, appVars>>
    \/ \E perms \in ShortPermLists : PermuteDataset(perms) /\ UNCHANGED <<optVars, appVars>>
    \/ PermuteNext /\ UNCHANGED <<optVars, appVars>>
    \/ \E n_tasks \in 0..MaxTasks :
           ClassIncrementalDataset(n_tasks) /\ UNCHANGED <<optVars, appVars>>
    \/ ClassIncrementalNext /\ UNCHANGED <<optVars, appVars>>

InitDataset ==
    /\ InitLoader(1..MaxRows, MaxRows, BOOLEAN, BOOLEAN)
    /\ OptimizerAbsent /\ AppAbsent

SpecDataset == InitDataset /\ [][NextDataset]_vars

(***************************************************************************)
(* Properties of a transformed and traversed dataset                       *)
(***************************************************************************)
\* the i-th (0-based) of n equal contiguous blocks of the labels
LabelBlock(i, n) ==
    IF NClasses \div n = 0 THEN {}
    ELSE {l \in 0..(NClasses - 1) : l \div (NClasses \div n) = i}

\* C11: class_incremental_dataset(n_tasks) makes at most n_tasks steps, and
\* a batch returned while its step i is the live one only holds samples
\* whose label is in the i-th of the n_tasks label blocks.
C11_ClassBlocks ==
    /\ [](gens.cg.active => gens.cg.i <= gens.cg.n)
    /\ [][(/\ gens.live.kind = "class" /\ gens.cg.active /\ gens.cg.i >= 1
           /\ trav' # trav /\ trav'.out = "batch")
          => \A k \in 1..Len(trav'.batch.targets) :
                 trav'.batch.targets[k]
                     \in LabelBlock(gens.cg.i - 1, gens.cg.n)]_vars

\* the sample a feature row was decoded from (its pixels are a rearrangement
\* of 10*i + 1 .. 10*i + NPix)
SampleOf(row) == row[1] \div 10

\* C12: the dataset always holds as many feature rows as labels, and a batch
\* pairs every feature row with the label of the sample the row comes from,
\* which is the sample at the index that was drawn.
C12_RowsMatchLabels ==
    /\ Len(loader.data) = Len(loader.targets)
    /\ loader.targets = OrigTargets(DatasetLen(loader))
    /\ trav.out = "batch" =>
           /\ Len(trav.batch.data) = Len(trav.batch.targets)
           /\ Len(trav.batch.data) = Len(trav.yielded[Len(trav.yielded)])
           /\ \A k \in 1..Len(trav.batch.data) :
                  /\ SampleOf(trav.batch.data[k])
                         = trav.yielded[Len(trav.yielded)][k]
                  /\ trav.batch.targets[k]
                         = OrigTargets(DatasetLen(loader))
                               [SampleOf(trav.batch.data[k])]

\* a shuffled batch of two samples in reverse order, taken from a dataset
\* whose pixels are reversed, while a class-incremental sequence is open
C12_Witness ==
    /\ trav.out = "batch"
    /\ trav.yielded = <<(<<2, 1>>)>>
    /\ gens.live.kind = "perm" /\ gens.live.perm = Reversal(NPix)
    /\ gens.cg.active /\ gens.cg.i >= 1
    /\ DatasetLen(loader) = 2
    /\ trav.batch.data
           = <<PermuteRows(OrigData(2), Reversal(NPix))[2],
               PermuteRows(OrigData(2), Reversal(NPix))[1]>>
    /\ trav.batch.targets = <<1, 0>>

(***************************************************************************)
(* BayesTrainer                                                            *)
(***************************************************************************)
MaxSamples == 2

\* vectors of two entries: the flattened parameters of the model, and the
\* optimizer's state tensors of the same shape
Vectors(S) == {<<a, b>> : a \in S, b \in S}

\* values of optimizer.state['mu'] and optimizer.state['lambda'] (the Bayesian
\* optimizer is not part of the sources: it may leave any of these)
MuValues == {-Half, 0, Half}
LambdaValues == {-(60 * SCALE), 0, 10 * SCALE}

\* batches of inputs handed to predict
InputSet == {<<One, Half>>, <<-One, One>>}

\* kwargs["training_parameters"]: with and without the test_mcmc_samples key
TrainingParameters ==
    {[n_epochs |-> 1]}
    \cup {[n_epochs |-> 1, test_mcmc_samples |-> s] : s \in 0..MaxSamples}

\* model.forward in eval mode: a linear read-out of the two parameters
Forward(w, x) == Add(Mul(w[1], x[1]), Mul(w[2], x[2]))

\* torch.bernoulli(torch.sigmoid(2 * l)): the outcomes that can be drawn for
\* one element; in float32 the sigmoid is exactly 1 from about 17 on and
\* exactly 0 below about -104
BernoulliOutcomes(l) ==
    {b \in {0, One} :
        /\ b = One => 2 * l > -(104 * SCALE)
        /\ b = 0 => 2 * l < 17 * SCALE}

\* the lists of n_samples draws
Draws(lambda, n_samples) ==
    [1..n_samples ->
        {v \in Vectors({0, One}) :
            \A i \in 1..Len(lambda) : v[i] \in BernoulliOutcomes(lambda[i])}]

MapNoiseNonNegative(mu) ==
    [i \in 1..Len(mu) |-> IF mu[i] < 0 THEN 0 ELSE One]
\* torch.where(mu <= 0, zeros_like(mu), ones_like(mu)) (lines 58-61)
MapNoise(mu) ==
    [i \in 1..Len(mu) |-> IF mu[i] <= 0 THEN 0 ELSE One]

\* 2*n - 1 (line 103)
Substituted(n) == [i \in 1..Len(n) |-> Sub(Mul(2 * One, n[i]), One)]

NoiseAlwaysDrawn(mu, draws) == draws
\* the list noise of predict (lines 53-61): the draws, or the one map of mu
\* when there is no draw
NoiseOf(mu, draws) == IF Len(draws) = 0 THEN <<MapNoise(mu)>> ELSE draws

PredictionsReversed(inputs, noise) ==
    [k \in 1..Len(noise) |->
        Forward(Substituted(noise[Len(noise) + 1 - k]), inputs)]
\* monte_carlo_prediction (lines 99-106): one forward pass per element of
\* noise, each after vector_to_parameters(2*n - 1, parameters)
MonteCarloPrediction(inputs, noise) ==
    [k \in 1..Len(noise) |-> Forward(Substituted(noise[k]), inputs)]

\* "test_mcmc_samples" in kwargs["training_parameters"] (line 17)
HasSamples(tp) == "test_mcmc_samples" \in DOMAIN tp

RefusedAfterBase ==
    [NoTrainer EXCEPT !.stage = "config", !.err = "ValueError",
                      !.hasOptimizer = TRUE, !.hasHistory = TRUE]
\* the ValueError of lines 20-21: raised before super().__init__
Refused == [NoTrainer EXCEPT !.stage = "config", !.err = "ValueError"]

\* BayesTrainer(**kwargs): the test of line 17, then GPUTrainer.__init__,
\* which builds the optimizer (optimizer_ok: its constructor accepts its
\* parameters) and creates the accuracy histories
ConstructBayes(tp, optimizer_ok) ==
    /\ ~trainer.built
    /\ IF ~HasSamples(tp)
       THEN trainer' = [Refused EXCEPT !.given = tp]
       ELSE IF ~optimizer_ok
       THEN trainer' = [NoTrainer EXCEPT
                          !.stage = "base", !.err = "OptimizerError",
                          !.given = tp,
                          !.hasSamples = TRUE,
                          !.test_mcmc_samples = tp.test_mcmc_samples]
       ELSE \E mu \in Vectors(MuValues), lambda \in Vectors(LambdaValues) :
               trainer' = [NoTrainer EXCEPT
                             !.built = TRUE, !.stage = "done",
                             !.given = tp,
                             !.hasSamples = TRUE,
                             !.test_mcmc_samples = tp.test_mcmc_samples,
                             !.hasOptimizer = TRUE, !.hasHistory = TRUE,
                             !.mu = mu, !.lambda = lambda,
                             !.parameters = <<Half, -Half>>]
    /\ UNCHANGED <<run, built>>

\* BayesTrainer.batch_step: optimizer.step(...) of the Bayesian optimizer
\* moves mu and lambda
BayesBatchStep ==
    /\ trainer.built
    /\ \E mu \in Vectors(MuValues), lambda \in Vectors(LambdaValues) :
          trainer' = [trainer EXCEPT !.mu = mu, !.lambda = lambda,
                                     !.out = [NoOut EXCEPT !.op = "step"]]
    /\ UNCHANGED <<run, built>>

ParametersRestored(parameters, noise) == parameters
\* the model parameters once monte_carlo_prediction has run (line 103):
\* vector_to_parameters overwrites them for every element of noise and
\* nothing writes the former values back
ParametersAfter(parameters, noise) ==
    IF noise = <<>> THEN parameters ELSE Substituted(noise[Len(noise)])

\* BayesTrainer.predict(inputs, n_samples)
Predict(inputs, n_samples) ==
    /\ trainer.built
    /\ \E draws \in Draws(trainer.lambda, n_samples) :
          \E noise \in {NoiseOf(trainer.mu, draws)} :
             trainer' = [trainer EXCEPT
                  !.parameters = ParametersAfter(trainer.parameters, noise),
                  !.out = [op |-> "predict", n_samples |-> n_samples,
                           inputs |-> inputs, drawn |-> draws,
                           noise |-> noise,
                           predictions |->
                               MonteCarloPrediction(inputs, noise),
                           input_size |-> 0]]
    /\ UNCHANGED <<run, built>>

NextBayes ==
    \/ \E tp \in TrainingParameters, ok \in BOOLEAN :
          ConstructBayes(tp, ok) /\ UNCHANGED <<optVars, loaderVars>>
    \/ BayesBatchStep /\ UNCHANGED <<optVars, loaderVars>>
    \/ \E inputs \in InputSet, n_samples \in 0..MaxSamples :
          Predict(inputs, n_samples) /\ UNCHANGED <<optVars, loaderVars>>

InitBayes == OptimizerAbsent /\ LoaderAbsent /\ AppAbsent

SpecBayes == InitBayes /\ [][NextBayes]_vars

C14_NonNegativeIsPlus ==
    trainer.out.op = "predict" /\ trainer.out.n_samples = 0 =>
        \A i \in 1..Len(trainer.mu) :
            trainer.parameters[i] = IF trainer.mu[i] >= 0 THEN One ELSE -One

\* C14: after predict with n_samples = 0 the model parameter is +1 wherever
\* mu > 0 and -1 wherever mu <= 0 (mu == 0 included): the {0,1} vector is 1
\* for a positive element of mu and 0 for every other.
C14_PositiveIsPlus ==
    trainer.out.op = "predict" /\ trainer.out.n_samples = 0 =>
        \A i \in 1..Len(trainer.mu) :
            /\ trainer.out.noise[1][i] = IF trainer.mu[i] > 0 THEN One ELSE 0
            /\ trainer.parameters[i] = IF trainer.mu[i] > 0 THEN One ELSE -One

C14_Witness ==
    /\ trainer.out.op = "predict" /\ trainer.out.n_samples = 0
    /\ trainer.mu = <<0, Half>>
    /\ trainer.parameters = <<-One, One>>

C16_SamplesRequired ==
    trainer.stage # "none" =>
        IF "test_mcmc_samples" \notin DOMAIN trainer.given
        THEN /\ trainer.stage = "config" /\ trainer.err = "ValueError"
             /\ ~trainer.built
             /\ ~trainer.hasOptimizer /\ ~trainer.hasHistory
        ELSE /\ trainer.stage \in {"base", "done"}
             /\ trainer.hasSamples
             /\ trainer.test_mcmc_samples = trainer.given.test_mcmc_samples
             /\ trainer.built => trainer.hasOptimizer /\ trainer.hasHistory

C16_Witness ==
    /\ trainer.stage = "config" /\ trainer.err = "ValueError"
    /\ ~trainer.built /\ ~trainer.hasOptimizer /\ ~trainer.hasHistory
    /\ DOMAIN trainer.given = {"n_epochs"}

(***************************************************************************)
(* The task loop of the training script (convolutionMain.py)               *)
(***************************************************************************)
MaxEpochs == 2
MaxTrainBatches == 2

\* data["optimizer"]: the classes the script tells apart
Optimizers ==
    {"BayesBiNN", "BinarySynapticUncertaintyTaskBoundaries",
     "BinaryHomosynapticUncertaintyTest", "MetaplasticAdam"}

\* line 118: the optimizers that get a BayesTrainer
UsesBayesTrainer(optimizer) ==
    optimizer \in {"BinarySynapticUncertainty_OLD", "BayesBiNN",
                   "BinarySynapticUncertaintyTaskBoundaries",
                   "BinaryHomosynapticUncertainty",
                   "BinaryHomosynapticUncertaintyTest"}

\* line 156: the optimizers whose update_prior_lambda is called
DeclaresBoundaries(optimizer) ==
    optimizer \in {"BinarySynapticUncertaintyTaskBoundaries", "BayesBiNN"}

\* torch.mean(torch.tensor(batch)): NaN for an empty list
RECURSIVE SumOf(_)
SumOf(s) == IF s = <<>> THEN 0 ELSE Add(Head(s), SumOf(Tail(s)))
MeanOf(s) == IF s = <<>> THEN NAN ELSE Div(SumOf(s), Len(s) * SCALE)

\* GPUTrainer.test: the mean of (predictions == labels) over n labels
TestAccuracy(correct, n) == Div(correct * SCALE, n * SCALE)

AccuracyEntryShort(steps, correct, n) ==
    [j \in 1..(steps - 1) |-> MeanOf(<<TestAccuracy(correct, n)>>)]
\* GPUTrainer.evaluate, lines 90-96: one mean accuracy per test loader (per
\* permutation step); each traversal of a test loader gives one batch
AccuracyEntry(steps, correct, n) ==
    [j \in 1..steps |-> MeanOf(<<TestAccuracy(correct, n)>>)]

\* the number of loaders evaluate walks over: the permutation steps of
\* test_loader[0].permute_dataset(permutations), or the test loaders
EvaluatedLoaders(r) == r.n_tasks

\* the script after the trainer is built (line 124): task is data["task"],
\* n_tasks the number of permutations or of train loaders (as many test
\* loaders), nb the number of batches of a traversal of a train loader
NewRun(task, optimizer, n_tasks, n_epochs, nb) ==
    [pc |-> "tasks", task |-> task, optimizer |-> optimizer,
     n_tasks |-> n_tasks, n_epochs |-> n_epochs, nb |-> nb,
     i |-> 0, epoch |-> 0, left |-> 0, hasLoss |-> FALSE, log |-> <<>>]

Event(ev, r) == [ev |-> ev, task |-> r.i, epoch |-> r.epoch]

\* net_trainer as the script builds it
RunTrainer(optimizer) ==
    [NoTrainer EXCEPT !.built = TRUE, !.stage = "done",
                      !.hasSamples = UsesBayesTrainer(optimizer),
                      !.test_mcmc_samples = 1,
                      !.hasOptimizer = TRUE, !.hasHistory = TRUE]

InitRun ==
    /\ \E task \in {"PermutedMNIST", "Sequential", "MNIST"},
          optimizer \in Optimizers,
          n_tasks \in 0..MaxTasks, n_epochs \in 0..MaxEpochs,
          nb \in 0..MaxTrainBatches :
          /\ task = "Sequential" => n_tasks = 2
          /\ task = "MNIST" => n_tasks = 1
          /\ run = NewRun(task, optimizer, n_tasks, n_epochs, nb)
          /\ trainer = RunTrainer(optimizer)
    /\ built = NoBuilt
    /\ OptimizerAbsent /\ LoaderAbsent

\* line 130: the for loop asks for its next task (the next train loader, or
\* the next step of train_loader[0].permute_dataset(permutations))
NextTask ==
    /\ run.pc = "tasks"
    /\ IF run.i < run.n_tasks
       THEN \E r \in {[run EXCEPT !.i = run.i + 1, !.epoch = 0]} :
               run' = [r EXCEPT !.pc = "epochs",
                                !.log = Append(run.log, Event("task", r))]
       ELSE run' = [run EXCEPT !.pc = "done"]
    /\ UNCHANGED <<trainer, built>>

\* line 132: the epoch loop asks for its next epoch; epoch_step begins
NextEpoch ==
    /\ run.pc = "epochs"
    /\ IF run.epoch < run.n_epochs
       THEN run' = [run EXCEPT !.pc = "train", !.epoch = run.epoch + 1,
                               !.left = run.nb]
       ELSE run' = [run EXCEPT !.pc = "boundary"]
    /\ UNCHANGED <<trainer, built>>

\* epoch_step: batch_step on the next batch of the task; it sets self.loss
TrainBatch ==
    /\ run.pc = "train" /\ run.left > 0
    /\ run' = [run EXCEPT !.left = run.left - 1, !.hasLoss = TRUE,
                          !.log = Append(run.log, Event("batch", run))]
    /\ UNCHANGED <<trainer, built>>

\* lines 147-151: net_trainer.evaluate once the batches are through
Evaluate ==
    /\ run.pc = "train" /\ run.left = 0
    /\ \E correct \in {1, MaxRows} :
          trainer' = [trainer EXCEPT
                        !.testing_accuracy =
                            Append(trainer.testing_accuracy,
                                   AccuracyEntry(EvaluatedLoaders(run),
                                                 correct, MaxRows))]
    /\ run' = [run EXCEPT !.pc = "pbar",
                          !.log = Append(run.log, Event("eval", run))]
    /\ UNCHANGED built

AfterUpdateBoundary == "boundary"
\* line 154 is the end of the body of the epoch loop
AfterUpdate == "epochs"

\* lines 153-154: pbar_update reads self.loss once there is an accuracy
PbarUpdate ==
    /\ run.pc = "pbar"
    /\ IF Len(trainer.testing_accuracy) > 0 /\ ~run.hasLoss
       THEN run' = [run EXCEPT !.pc = "crashed"]
       ELSE run' = [run EXCEPT !.pc = AfterUpdate]
    /\ UNCHANGED <<trainer, built>>

\* lines 155-157: after the epoch loop
TaskBoundary ==
    /\ run.pc = "boundary"
    /\ IF DeclaresBoundaries(run.optimizer)
       THEN run' = [run EXCEPT !.pc = "tasks",
                               !.log = Append(run.log, Event("hook", run))]
       ELSE run' = [run EXCEPT !.pc = "tasks"]
    /\ UNCHANGED <<trainer, built>>

NextRun ==
    \/ NextTask /\ UNCHANGED <<optVars, loaderVars>>
    \/ NextEpoch /\ UNCHANGED <<optVars, loaderVars>>
    \/ TrainBatch /\ UNCHANGED <<optVars, loaderVars>>
    \/ Evaluate /\ UNCHANGED <<optVars, loaderVars>>
    \/ PbarUpdate /\ UNCHANGED <<optVars, loaderVars>>
    \/ TaskBoundary /\ UNCHANGED <<optVars, loaderVars>>

SpecRun == InitRun /\ [][NextRun]_vars

(***************************************************************************)
(* Properties of the task loop                                             *)
(***************************************************************************)
\* the positions of the events ev of task t in the log of the script
EventsOf(ev, t) ==
    {p \in 1..Len(run.log) : run.log[p].ev = ev /\ run.log[p].task = t}

\* task t is through: the loop has moved past its boundary
TaskThrough(t) ==
    \/ t < run.i
    \/ t = run.i /\ run.pc \in {"tasks", "done"}

\* C17: tasks are taken in order; with an optimizer that declares task
\* boundaries update_prior_lambda is called once for every task that is
\* through, after all n_epochs epochs of the task were trained and
\* evaluated, and nothing of that task happens after the call; with another
\* optimizer it is never called.
C17_HookOncePerTask ==
    /\ \A p, q \in 1..Len(run.log) :
           p < q => run.log[p].task <= run.log[q].task
    /\ \A t \in 1..run.n_tasks :
           /\ TaskThrough(t) \/ t = run.i => Cardinality(EventsOf("task", t)) = 1
           /\ Cardinality(EventsOf("hook", t)) <= 1
           /\ ~DeclaresBoundaries(run.optimizer) => EventsOf("hook", t) = {}
           /\ DeclaresBoundaries(run.optimizer) /\ TaskThrough(t) =>
                  Cardinality(EventsOf("hook", t)) = 1
           /\ \A h \in EventsOf("hook", t) :
                  /\ Cardinality({p \in EventsOf("eval", t) : p < h})
                         = run.n_epochs
                  /\ Cardinality({p \in EventsOf("batch", t) : p < h})
                         = run.n_epochs * run.nb
                  /\ \A p \in 1..Len(run.log) :
                         p > h => run.log[p].task > t

\* two tasks of two epochs of two batches, each followed by one call
C17_Witness ==
    /\ run.pc = "done" /\ run.optimizer = "BayesBiNN"
    /\ run.n_tasks = 2 /\ run.n_epochs = 2 /\ run.nb = 2
    /\ Cardinality(EventsOf("hook", 1)) = 1
    /\ Cardinality(EventsOf("hook", 2)) = 1
    /\ run.log[8].ev = "hook" /\ run.log[9] = [ev |-> "task", task |-> 2,
                                               epoch |-> 0]

\* C18: a run over a permuted sequence of n_tasks tasks of n_epochs epochs
\* that reaches its end has appended n_tasks * n_epochs entries to
\* testing_accuracy; every entry ever appended lists one accuracy per
\* permutation step, each between 0 and 1.
C18_AccuracyHistory ==
    run.task = "PermutedMNIST" =>
        /\ Len(trainer.testing_accuracy) <= run.n_tasks * run.n_epochs
        /\ run.pc = "done" =>
               Len(trainer.testing_accuracy) = run.n_tasks * run.n_epochs
        /\ \A e \in 1..Len(trainer.testing_accuracy) :
               /\ Len(trainer.testing_accuracy[e]) = run.n_tasks
               /\ \A j \in 1..Len(trainer.testing_accuracy[e]) :
                      /\ trainer.testing_accuracy[e][j] >= 0
                      /\ trainer.testing_accuracy[e][j] <= One

\* 2 tasks of 1 epoch: 2 entries of 2 accuracies
C18_Witness ==
    /\ run.task = "PermutedMNIST" /\ run.pc = "done"
    /\ run.n_tasks = 2 /\ run.n_epochs = 1 /\ run.nb >= 1
    /\ Len(trainer.testing_accuracy) = 2
    /\ Len(trainer.testing_accuracy[1]) = 2
    /\ trainer.testing_accuracy[1] # trainer.testing_accuracy[2]

(***************************************************************************)
(* The loading facade: task_selection and GPULoading.batching              *)
(***************************************************************************)
\* task identifiers handed to task_selection: the known ones and others
KnownTasks ==
    {"Sequential", "MNIST", "PermutedMNIST", "CIFAR10", "CIFAR10INCREMENTAL",
     "CIFAR100", "CIFAR100INCREMENTAL"}
TaskNames == KnownTasks \cup {"FashionMNIST", "mnist", "CIFAR"}

DefaultDropLastOff == FALSE
\* GPUDataLoader.__init__(..., shuffle=True, drop_last=True): the default
DefaultDropLast == TRUE

\* GPULoading.batching with as_dataset=False (lines 107-117): the train and
\* the test loader of one dataset
Batching(name, ntrain, ntest, batch_size) ==
    [train |-> [name |-> name,
                loader |-> NewLoader(ntrain, batch_size, TRUE, TRUE)],
     test |-> [name |-> name,
               loader |-> NewLoader(ntest, ntest, TRUE, DefaultDropLast)]]

DatasetsOfFirstOnly(task) ==
    IF task = "Sequential" \/ task = "MNIST" \/ task = "PermutedMNIST"
    THEN <<"MNIST">>
    ELSE IF task = "CIFAR10" \/ task = "CIFAR10INCREMENTAL" THEN <<"CIFAR10">>
    ELSE IF task = "CIFAR100" \/ task = "CIFAR100INCREMENTAL"
    THEN <<"CIFAR100">>
    ELSE <<>>
\* the datasets task_selection loads for a task, in order (lines 88-113);
\* none for a task it does not know
DatasetsOf(task) ==
    IF task = "Sequential" THEN <<"MNIST", "FashionMNIST">>
    ELSE IF task = "MNIST" \/ task = "PermutedMNIST" THEN <<"MNIST">>
    ELSE IF task = "CIFAR10" \/ task = "CIFAR10INCREMENTAL" THEN <<"CIFAR10">>
    ELSE IF task = "CIFAR100" \/ task = "CIFAR100INCREMENTAL"
    THEN <<"CIFAR100">>
    ELSE <<>>

\* task_selection(loader, task, batch_size)
TaskSelection(task, ntrain, ntest, batch_size) ==
    /\ built.task = "none"
    /\ IF DatasetsOf(task) = <<>>
       THEN built' = [NoBuilt EXCEPT !.task = task, !.err = "ValueError",
                                     !.batch_size = batch_size]
       ELSE built' =
              [task |-> task, err |-> "none", batch_size |-> batch_size,
               taken |-> "none",
               train |-> [k \in 1..Len(DatasetsOf(task)) |->
                            Batching(DatasetsOf(task)[k], ntrain, ntest,
                                     batch_size).train],
               test |-> [k \in 1..Len(DatasetsOf(task)) |->
                           Batching(DatasetsOf(task)[k], ntrain, ntest,
                                    batch_size).test]]
    /\ UNCHANGED <<trainer, run>>

\* the caller takes one of the returned loaders to traverse it
TakeLoader(which, k) ==
    /\ built.err = "none" /\ built.taken = "none"
    /\ k \in 1..Len(built[which])
    /\ built' = [built EXCEPT !.taken = which]
    /\ loader' = built[which][k].loader
    /\ trav' = NoTraversal(built[which][k].loader.batch_size)
    /\ gens' = NoGens
    /\ UNCHANGED <<trainer, run>>

NextFacade ==
    \/ \E task \in TaskNames, ntrain \in 1..MaxRows, ntest \in 1..MaxRows,
          batch_size \in 1..MaxRows :
          /\ TaskSelection(task, ntrain, ntest, batch_size)
          /\ UNCHANGED <<optVars, loaderVars>>
    \/ \E which \in {"train", "test"}, k \in 1..2 :
          TakeLoader(which, k) /\ UNCHANGED optVars
    \/ loader.built /\ Iter /\ UNCHANGED <<optVars, appVars>>
    \/ loader.built /\ NextBatch /\ UNCHANGED <<optVars, appVars>>

InitFacade == OptimizerAbsent /\ LoaderAbsent /\ AppAbsent

SpecFacade == InitFacade /\ [][NextFacade]_vars
\* the loaders task_selection returned are built as batching builds them:
\* the train loaders shuffled, dropping the remainder, with the requested
\* batch size; the test loaders shuffled, with the whole test set as batch
\* size and the given drop_last flag
BuiltAs(test_drop_last) ==
    built.task # "none" /\ built.err = "none" =>
        /\ \A k \in 1..Len(built.train) :
               /\ built.train[k].loader.shuffle
               /\ built.train[k].loader.drop_last
               /\ built.train[k].loader.batch_size = built.batch_size
        /\ \A k \in 1..Len(built.test) :
               /\ built.test[k].loader.shuffle
               /\ built.test[k].loader.drop_last = test_drop_last
               /\ built.test[k].loader.batch_size
                      = DatasetLen(built.test[k].loader)

\* a traversal of a taken test loader returns one batch made of every test
\* sample once, and has returned exactly that batch when it ends
OneBatchOfAll ==
    built.taken = "test" /\ loader.started =>
        /\ Len(trav.yielded) <= 1
        /\ \A k \in 1..Len(trav.yielded) :
               /\ Len(trav.yielded[k]) = DatasetLen(loader)
               /\ {trav.yielded[k][i] : i \in 1..Len(trav.yielded[k])}
                      = 1..DatasetLen(loader)
        /\ trav.out = "batch" =>
               Len(trav.batch.data) = DatasetLen(loader)
        /\ trav.done => Len(trav.yielded) = 1

\* C19: in iterator mode the train iterator is built with shuffle=True,
\* drop_last=True and the requested batch size, the test iterator with
\* shuffle=True, drop_last=False and the whole test set as batch size, so
\* every traversal of the test iterator is one batch of all test samples.
C19_TestKeepsRemainder ==
    BuiltAs(FALSE) /\ OneBatchOfAll

\* C19 as the code has it: the test iterator is built without a drop_last
\* argument, so with the default drop_last=True; its batch size being the
\* size of the test set, every traversal still is one batch of all test
\* samples.
C19_TestDefaultDropLast ==
    BuiltAs(TRUE) /\ OneBatchOfAll

\* the second traversal of a shuffled test loader of MaxRows samples has
\* ended after its one batch, while the train loader has a smaller batch
C19_Witness ==
    /\ built.taken = "test" /\ built.err = "none"
    /\ built.batch_size = 1
    /\ DatasetLen(loader) = MaxRows /\ loader.drop_last
    /\ trav.n = 2 /\ trav.done /\ Len(trav.yielded) = 1
    /\ loader.perm # Identity(MaxRows)
\* the dataset names of a list of returned loaders
NamesOf(loaders) == [k \in 1..Len(loaders) |-> loaders[k].name]

\* C20: task_selection fails with a ValueError and returns no loaders for a
\* task outside the known set; for "Sequential" it returns two train and
\* two test loaders, MNIST then FashionMNIST; for every other known task
\* exactly one train and one test loader.
C20_TaskSelection ==
    built.task # "none" =>
        /\ built.task \notin KnownTasks =>
               /\ built.err = "ValueError"
               /\ built.train = <<>> /\ built.test = <<>>
        /\ built.task = "Sequential" =>
               /\ built.err = "none"
               /\ NamesOf(built.train) = <<"MNIST", "FashionMNIST">>
               /\ NamesOf(built.test) = <<"MNIST", "FashionMNIST">>
        /\ built.task \in KnownTasks \ {"Sequential"} =>
               /\ built.err = "none"
               /\ Len(built.train) = 1 /\ Len(built.test) = 1

\* a Sequential selection has returned its four loaders and the caller has
\* started to traverse the FashionMNIST train loader
C20_Witness ==
    /\ built.task = "Sequential" /\ built.err = "none"
    /\ Len(built.train) = 2 /\ Len(built.test) = 2
    /\ built.train[2].name = "FashionMNIST"
    /\ built.taken = "train" /\ loader.started

\* C30: predict leaves the optimizer's mu and lambda as they were and leaves
\* the model holding the last substituted sample (the MAP vector when
\* n_samples = 0): every parameter element is -1 or +1 afterwards, whatever
\* the parameters were before the call.
C30_PredictOverwritesModel ==
    [][trainer' # trainer /\ trainer'.out.op = "predict" =>
          /\ trainer'.mu = trainer.mu
          /\ trainer'.lambda = trainer.lambda
          /\ \A i \in 1..Len(trainer'.parameters) :
                /\ trainer'.parameters[i] \in {-One, One}
                /\ trainer'.parameters[i] =
                     IF trainer'.out.n_samples = 0
                     THEN (IF trainer.mu[i] > 0 THEN One ELSE -One)
                     ELSE 2 * trainer'.out.drawn[trainer'.out.n_samples][i]
                            - One]_vars

\* a predict with MaxSamples samples whose draws differ has returned: the
\* model holds the last draw, not the parameters it was built with
C30_Witness ==
    /\ trainer.built /\ trainer.out.op = "predict"
    /\ trainer.out.n_samples = MaxSamples
    /\ trainer.out.drawn[1] # trainer.out.drawn[MaxSamples]
    /\ trainer.parameters = Substituted(trainer.out.drawn[MaxSamples])
    /\ trainer.parameters # <<Half, -Half>>

(***************************************************************************)
(* BayesTrainer.epoch_step and the other calls on a trainer                *)
(***************************************************************************)
MaxTestSets == 2
MaxEpochCalls == 1
MaxDirect == 1

\* a test set handed to epoch_step or evaluate: a loader whose traversal
\* gives nb batches, on each of which self.test returns acc; the k-th test
\* set of a list, and a test set without any batch
TestSetAt(k) ==
    IF k % 2 = 1 THEN [acc |-> 0, nb |-> 1] ELSE [acc |-> One, nb |-> 1]
EmptyTestSet == [acc |-> Half, nb |-> 0]

\* the test_loader argument: None, or a list of test sets
TestLoaders ==
    {[given |-> FALSE, sets |-> <<>>],
     [given |-> TRUE, sets |-> <<EmptyTestSet>>]}
    \cup {[given |-> TRUE, sets |-> [k \in 1..n |-> TestSetAt(k)]] :
             n \in 0..MaxTestSets}

\* line 117: dataset_size = len(train_dataset) * train_dataset.batch_size
DatasetSize(ld) == LoaderLen(ld) * ld.batch_size

\* torch.mean(torch.tensor(batch)) of the accuracies of the batches of each
\* test set (lines 131-144 of bayesTrainer.py, 90-96 of gpuTrainer.py)
TestSetMeans(sets) ==
    [k \in 1..Len(sets) |-> MeanOf([j \in 1..sets[k].nb |-> sets[k].acc])]

\* what optimizer.step can leave in state['mu'] and state['lambda']
StepPosteriors ==
    {[mu |-> <<Half, -Half>>, lambda |-> <<0, 10 * SCALE>>],
     [mu |-> <<-Half, 0>>, lambda |-> <<10 * SCALE, 0>>]}

\* a trainer as BayesTrainer.__init__ leaves it, with or without a scheduler
\* and with or without the attribute test_permutations
EpochTrainer(scheduler, test_permutations) ==
    [NoTrainer EXCEPT !.built = TRUE, !.stage = "done",
                      !.hasSamples = TRUE, !.test_mcmc_samples = 1,
                      !.hasOptimizer = TRUE, !.hasHistory = TRUE,
                      !.mu = <<Half, -Half>>, !.lambda = <<0, 10 * SCALE>>,
                      !.parameters = <<Half, -Half>>,
                      !.hasScheduler = scheduler,
                      !.hasPermutations = test_permutations]

\* no call is in progress (calls: the epoch_step calls so far; direct: the
\* other calls so far; log: the calls the last epoch_step has made, in
\* order)
NoCall ==
    [pc |-> "idle", calls |-> 0, direct |-> 0, dataset_size |-> 0,
     test_loader |-> [given |-> FALSE, sets |-> <<>>], k |-> 0,
     test |-> <<>>, before |-> 0, err |-> "none", log |-> <<>>]

Called(ev, arg) == [ev |-> ev, call |-> run.calls, arg |-> arg]

InitEpoch ==
    /\ InitLoader({FullShuffle}, MaxBatch, {FALSE}, BOOLEAN)
    /\ \E scheduler \in BOOLEAN, test_permutations \in BOOLEAN :
          trainer = EpochTrainer(scheduler, test_permutations)
    /\ run = NoCall
    /\ built = NoBuilt
    /\ OptimizerAbsent

ResetForgetsHistory(tr) ==
    [tr EXCEPT !.mu = <<Half, -Half>>, !.lambda = <<0, 10 * SCALE>>,
               !.testing_accuracy = <<>>]
\* reset_optimizer (lines 43-44): a new optimizer of the same class; nothing
\* else of the trainer is assigned
Reset(tr) ==
    [tr EXCEPT !.mu = <<Half, -Half>>, !.lambda = <<0, 10 * SCALE>>]

\* BayesTrainer.batch_step(inputs, targets, dataset_size): one
\* optimizer.step(input_size=dataset_size, closure=closure)
BatchStep(dataset_size) ==
    \E post \in StepPosteriors :
       trainer' = [trainer EXCEPT
                     !.mu = post.mu, !.lambda = post.lambda,
                     !.out = [NoOut EXCEPT !.op = "step",
                                           !.input_size = dataset_size]]

\* epoch_step(train_dataset, test_loader) up to the for statement of line
\* 118: dataset_size is computed, then the traversal begins
EpochStep(test_loader) ==
    /\ run.pc = "idle" /\ run.calls < MaxEpochCalls
    /\ Iter
    /\ run' = [run EXCEPT !.pc = "train", !.calls = run.calls + 1,
                          !.dataset_size = DatasetSize(loader),
                          !.test_loader = test_loader, !.k = 0,
                          !.test = <<>>, !.log = <<>>,
                          !.before = Len(trainer.testing_accuracy)]
    /\ UNCHANGED <<trainer, built>>

AfterBatchesEvaluate == "evaluate"
\* line 125 follows the for statement of lines 118-123
AfterBatches == "scheduler"

\* lines 118-123: the next batch of the train traversal and its batch_step,
\* or the end of the traversal
TrainStep ==
    /\ run.pc = "train"
    /\ NextBatch
    /\ IF trav'.out = "batch"
       THEN /\ BatchStep(run.dataset_size)
            /\ run' = [run EXCEPT
                         !.log = Append(run.log,
                                    Called("batch_step", run.dataset_size))]
       ELSE /\ run' = [run EXCEPT !.pc = AfterBatches]
            /\ UNCHANGED trainer
    /\ UNCHANGED built

\* lines 126-130: the scheduler, then the evaluation if test sets were given
SchedulerStep ==
    /\ run.pc = "scheduler"
    /\ run' = [run EXCEPT
                 !.pc = IF run.test_loader.given THEN "evaluate" ELSE "idle",
                 !.log = IF trainer.hasScheduler
                         THEN Append(run.log, Called("scheduler", 0))
                         ELSE run.log]
    /\ UNCHANGED <<trainer, built, loaderVars>>

\* lines 132-144: the traversal of the next test set; with test_permutations
\* its first batch calls self.test_continual, which no class defines
EvaluateTestSet ==
    /\ run.pc = "evaluate" /\ run.k < Len(run.test_loader.sets)
    /\ IF trainer.hasPermutations /\ run.test_loader.sets[run.k + 1].nb > 0
       THEN run' = [run EXCEPT !.pc = "crashed", !.err = "AttributeError"]
       ELSE run' = [run EXCEPT
                      !.k = run.k + 1,
                      !.test = Append(run.test,
                                 TestSetMeans(run.test_loader.sets)[run.k + 1]),
                      !.log = Append(run.log, Called("test", run.k + 1))]
    /\ UNCHANGED <<trainer, built, loaderVars>>

\* lines 145-146: the list of means joins the history; epoch_step returns
EvaluateEnd ==
    /\ run.pc = "evaluate" /\ run.k = Len(run.test_loader.sets)
    /\ trainer' = [trainer EXCEPT
                     !.testing_accuracy =
                         IF trainer.hasPermutations
                         THEN trainer.testing_accuracy
                         ELSE Append(trainer.testing_accuracy, run.test)]
    /\ run' = [run EXCEPT !.pc = "idle"]
    /\ UNCHANGED <<built, loaderVars>>

\* GPUTrainer.evaluate(test_loader) (lines 87-99)
EvaluateCall(test_loader) ==
    /\ run.pc = "idle" /\ run.direct < MaxDirect
    /\ trainer' = [trainer EXCEPT
                     !.testing_accuracy =
                         IF test_loader.given
                         THEN Append(trainer.testing_accuracy,
                                     TestSetMeans(test_loader.sets))
                         ELSE trainer.testing_accuracy,
                     !.out = [NoOut EXCEPT !.op = "evaluate"]]
    /\ run' = [run EXCEPT !.direct = run.direct + 1]
    /\ UNCHANGED <<built, loaderVars>>

\* reset_optimizer(optimizer_parameters) on the Bayesian trainer
ResetPosterior ==
    /\ run.pc = "idle" /\ run.direct < MaxDirect
    /\ trainer' = [Reset(trainer) EXCEPT !.out = [NoOut EXCEPT !.op = "reset"]]
    /\ run' = [run EXCEPT !.direct = run.direct + 1]
    /\ UNCHANGED <<built, loaderVars>>

\* BayesTrainer.test(inputs, labels): predict with test_mcmc_samples samples
Test(inputs) == Predict(inputs, trainer.test_mcmc_samples)

NextEpochStep ==
    \/ \E test_loader \in TestLoaders :
          EpochStep(test_loader) /\ UNCHANGED optVars
    \/ TrainStep /\ UNCHANGED optVars
    \/ SchedulerStep /\ UNCHANGED optVars
    \/ EvaluateTestSet /\ UNCHANGED optVars
    \/ EvaluateEnd /\ UNCHANGED optVars
    \/ \E test_loader \in {tl \in TestLoaders : Len(tl.sets) <= 1} :
          EvaluateCall(test_loader) /\ UNCHANGED optVars
    \/ ResetPosterior /\ UNCHANGED optVars
    \/ /\ run.pc = "idle" /\ run.direct < MaxDirect
       /\ \E dataset_size \in {DatasetLen(loader)} : BatchStep(dataset_size)
       /\ run' = [run EXCEPT !.direct = run.direct + 1]
       /\ UNCHANGED <<optVars, loaderVars, built>>
    \/ /\ run.pc = "idle" /\ run.direct < MaxDirect
       /\ trainer.out.op # "predict"
       /\ \E inputs \in {<<One, Half>>} : Predict(inputs, 0)
       /\ UNCHANGED <<optVars, loaderVars>>
    \/ /\ run.pc = "idle" /\ run.direct < MaxDirect
       /\ trainer.out.op # "predict"
       /\ \E inputs \in {<<-One, One>>} : Test(inputs)
       /\ UNCHANGED <<optVars, loaderVars>>

SpecEpoch == InitEpoch /\ [][NextEpochStep]_vars

(***************************************************************************)
(* Properties of epoch_step and of the accuracy history                    *)
(***************************************************************************)
\* C21: the accuracy history is append-only: no call on the trainer
\* (epoch_step, evaluate, predict, test, batch_step, reset_optimizer) makes
\* it shorter or changes or moves a record it already holds.
C21_HistoryAppendOnly ==
    [][/\ Len(trainer'.testing_accuracy) >= Len(trainer.testing_accuracy)
       /\ \A p \in 1..Len(trainer.testing_accuracy) :
             trainer'.testing_accuracy[p] = trainer.testing_accuracy[p]]_vars

\* an epoch_step has added a record of two accuracies and a later
\* reset_optimizer has left it in place
C21_Witness ==
    /\ run.calls = 1 /\ run.pc = "idle" /\ trainer.out.op = "reset"
    /\ Len(trainer.testing_accuracy) = 1
    /\ Len(trainer.testing_accuracy[1]) = 2

\* the positions of the calls ev in the log of the last epoch_step
LogOf(ev) == {p \in 1..Len(run.log) : run.log[p].ev = ev}

\* the accuracy of a test set as self.test and torch.mean give it
MeanAccuracy(testset) == IF testset.nb = 0 THEN NAN ELSE testset.acc

\* C22: epoch_step calls batch_step once per batch of the train traversal,
\* then advances the scheduler exactly once if there is one, then evaluates
\* the test sets in the order given and adds their accuracies to the history
\* in that order; no evaluation precedes the last batch_step. (The trainer
\* has no test_permutations for the part about the history.)
C22_PhaseOrder ==
    run.calls >= 1 =>
        /\ \A p \in LogOf("batch_step"), q \in LogOf("scheduler") : p < q
        /\ \A p \in LogOf("batch_step"), q \in LogOf("test") : p < q
        /\ \A p \in LogOf("scheduler"), q \in LogOf("test") : p < q
        /\ \A p, q \in LogOf("test") :
              p < q => run.log[p].arg < run.log[q].arg
        /\ Cardinality(LogOf("test")) = run.k
        /\ {run.log[p].arg : p \in LogOf("test")} = 1..run.k
        /\ run.pc = "train" =>
              /\ Cardinality(LogOf("batch_step")) = Len(trav.yielded)
              /\ LogOf("scheduler") = {} /\ LogOf("test") = {}
        /\ run.pc = "scheduler" => LogOf("scheduler") = {}
        /\ run.pc \in {"scheduler", "evaluate", "idle", "crashed"} =>
              /\ trav.done
              /\ Cardinality(LogOf("batch_step")) = Len(trav.yielded)
        /\ run.pc \in {"evaluate", "idle", "crashed"} =>
              Cardinality(LogOf("scheduler"))
                  = IF trainer.hasScheduler THEN 1 ELSE 0
        /\ run.pc = "idle" /\ ~run.test_loader.given =>
              /\ LogOf("test") = {}
              /\ run.direct = 0 =>
                    Len(trainer.testing_accuracy) = run.before
        /\ run.pc = "idle" /\ run.test_loader.given
              /\ ~trainer.hasPermutations =>
              /\ run.k = Len(run.test_loader.sets)
              /\ Len(trainer.testing_accuracy) > run.before
              /\ trainer.testing_accuracy[run.before + 1]
                    = [k \in 1..Len(run.test_loader.sets) |->
                          MeanAccuracy(run.test_loader.sets[k])]

\* an epoch_step of a trainer with a scheduler has returned after one
\* batch_step per sample, one scheduler step and two evaluations, and the
\* history holds the two accuracies in the order of the test sets
C22_Witness ==
    /\ run.calls = 1 /\ run.pc = "idle" /\ trainer.hasScheduler
    /\ ~trainer.hasPermutations
    /\ Cardinality(LogOf("batch_step")) = FullShuffle
    /\ Cardinality(LogOf("scheduler")) = 1
    /\ Cardinality(LogOf("test")) = 2
    /\ Len(trainer.testing_accuracy) = 1
    /\ trainer.testing_accuracy[1] = <<0, One>>

\* C23: the dataset size epoch_step hands to batch_step, and batch_step to
\* the optimizer's step as input_size, is the number N of samples of the
\* train loader, whatever N and the batch size are.
C23_DatasetSizeIsN ==
    /\ \A p \in LogOf("batch_step") : run.log[p].arg = DatasetLen(loader)
    /\ run.pc = "train" /\ trainer.out.op = "step" =>
          trainer.out.input_size = DatasetLen(loader)

\* C24: with test_permutations set, an epoch_step that is given test sets
\* ends without error and has added one accuracy to the history for every
\* permutation step it evaluated.
C24_ContinualEvaluation ==
    trainer.hasPermutations /\ run.calls >= 1 /\ run.test_loader.given =>
        /\ run.pc # "crashed"
        /\ run.pc = "idle" =>
              Len(trainer.testing_accuracy) - run.before
                  >= Cardinality({k \in 1..Len(run.test_loader.sets) :
                                     run.test_loader.sets[k].nb > 0})

(***************************************************************************)
(* Further properties of MetaplasticAdam (checked under SpecOptimizer)     *)
(***************************************************************************)
\* C25: with amsgrad, after every step() max_exp_avg_sq of every element is
\* at least exp_avg_sq and at least what it was before the call, it is the
\* larger of its former value and the new exp_avg_sq for a parameter the
\* call advanced, and the update of that call divides by
\* sqrt(max_exp_avg_sq) + eps.
C25_AmsRunningMax ==
    last.op = "step" /\ last.cfg.amsgrad =>
        \A n \in ParamSet : state[n].n # 0 =>
            \A i \in 1..Len(state[n].max_exp_avg_sq) :
                LET before == IF last.st0[n].n = 0 THEN 0
                              ELSE last.st0[n].max_exp_avg_sq[i]
                    now == state[n].max_exp_avg_sq[i]
                IN  /\ now >= state[n].exp_avg_sq[i]
                    /\ now >= before
                    /\ Reached(n) =>
                          now = (IF state[n].exp_avg_sq[i] > before
                                 THEN state[n].exp_avg_sq[i] ELSE before)
                    /\ ~Reached(n) => now = before
                    /\ Updated(n) =>
                          params[n][i] =
                              Add(last.p0[n][i],
                                  Div(Mul(Neg(StepSize(last.cfg,
                                                       state[n].step)),
                                          last.applied[n][i]),
                                      Add(Sqrt(now), last.cfg.eps)))

\* the second step of the AMS variant: the second moment of an element of w
\* has gone down and the running maximum has kept the larger value
C25_Witness ==
    /\ last.op = "step" /\ last.err = "none" /\ last.cfg.amsgrad
    /\ state["w"].step = 2 /\ Updated("w")
    /\ \E i \in 1..Len(params["w"]) :
          /\ state["w"].exp_avg_sq[i] < last.st0["w"].exp_avg_sq[i]
          /\ state["w"].max_exp_avg_sq[i] > state["w"].exp_avg_sq[i]
          /\ state["w"].max_exp_avg_sq[i] = last.st0["w"].max_exp_avg_sq[i]

\* C29: when step() fails on the sparse gradient of parameter p, p and
\* every parameter after it keep their value and their state (step,
\* exp_avg, exp_avg_sq) exactly, and every parameter before p keeps what
\* the call had already done to it: its moments and step count advanced by
\* one step and its value updated; nothing is rolled back.
C29_NoRollback ==
    last.op = "step" /\ last.err = "RuntimeError" =>
        /\ last.at \in 1..Len(ParamNames)
        /\ last.grads[ParamNames[last.at]].kind = "sparse"
        /\ \A n \in ParamSet :
              IF ParamIndex(n) >= last.at \/ last.grads[n].kind = "none"
              THEN params[n] = last.p0[n] /\ state[n] = last.st0[n]
              ELSE /\ state[n].step = last.st0[n].step + 1
                   /\ \A i \in 1..Len(params[n]) :
                         LET g == IF last.cfg.weight_decay = 0
                                  THEN last.grads[n].val[i]
                                  ELSE Add(last.grads[n].val[i],
                                           Mul(last.cfg.weight_decay,
                                               last.p0[n][i]))
                             m0 == IF last.st0[n].n = 0 THEN 0
                                   ELSE last.st0[n].exp_avg[i]
                             v0 == IF last.st0[n].n = 0 THEN 0
                                   ELSE last.st0[n].exp_avg_sq[i]
                         IN  /\ state[n].exp_avg[i] =
                                   Add(Mul(m0, last.cfg.betas[1]),
                                       Mul(Sub(One, last.cfg.betas[1]), g))
                             /\ state[n].exp_avg_sq[i] =
                                   Add(Mul(v0, last.cfg.betas[2]),
                                       Mul(Mul(Sub(One, last.cfg.betas[2]),
                                               g), g))
                             /\ params[n][i] =
                                   Add(last.p0[n][i],
                                       Div(Mul(Neg(StepSize(last.cfg,
                                                       state[n].step)),
                                               last.applied[n][i]),
                                           DenomOf(n, i)))

\* the second step() of an optimizer fails on the sparse gradient of b
\* after it has moved w and counted its second step; b is as it was after
\* the first step
C29_Witness ==
    /\ last.op = "step" /\ last.err = "RuntimeError" /\ last.at = 2
    /\ last.grads["w"].kind = "dense"
    /\ state["w"].step = 2 /\ last.st0["w"].step = 1
    /\ params["w"] # last.p0["w"]
    /\ state["w"].exp_avg # last.st0["w"].exp_avg
    /\ state["b"].step = 1 /\ state["b"] = last.st0["b"]
    /\ params["b"] = last.p0["b"]

(***************************************************************************)
(* Further properties of a traversal (checked under SpecIterator)          *)
(***************************************************************************)
\* C26: during a traversal the cursor stays within 0..N, and the batches
\* returned so far are the consecutive slices of the permutation up to the
\* cursor: every batch is non-empty and made of positions inside the
\* dataset, with drop_last or without.
C26_CursorInRange ==
    loader.started =>
        /\ loader.index \in 0..DatasetLen(loader)
        /\ Len(loader.perm) = DatasetLen(loader)
        /\ Flatten(trav.yielded) = SubSeq(loader.perm, 1, loader.index)
        /\ \A k \in 1..Len(trav.yielded) :
              /\ Len(trav.yielded[k]) >= 1
              /\ \A i \in 1..Len(trav.yielded[k]) :
                    trav.yielded[k][i] \in 1..DatasetLen(loader)
        /\ trav.out = "batch" =>
              Len(trav.batch.data) = Len(trav.yielded[Len(trav.yielded)])

\* a traversal without drop_last has returned its short last batch and the
\* cursor is at the end of the dataset
C26_Witness ==
    /\ loader.started /\ ~loader.drop_last /\ trav.out = "batch"
    /\ DatasetLen(loader) = MaxN /\ trav.B = MaxBatch
    /\ loader.index = DatasetLen(loader)
    /\ Len(trav.yielded[Len(trav.yielded)]) = MaxN % MaxBatch

\* C27: what len(loader) returned when a traversal began is the number of
\* batches that traversal has returned when it signals its end, with
\* drop_last or without.
C27_LenIsBatchCount ==
    loader.started /\ trav.done => Len(trav.yielded) = trav.len

\* C28: a traversal of N samples by the batch size B the loader was built
\* with returns at most ceil(N/B) batches before it signals its end, and
\* once it has, every further __next__ without a new __iter__ signals the
\* end again, returns no batch and leaves the loader as it is.
C28_EndOfSequence ==
    /\ [](loader.started =>
            Len(trav.yielded) <= (DatasetLen(loader) + trav.B - 1) \div trav.B)
    /\ [][trav.done /\ trav'.n = trav.n =>
            /\ trav'.done /\ trav'.out = "stop"
            /\ trav'.yielded = trav.yielded
            /\ loader' = loader]_vars
====
